---- MODULE Spec2Model ----
(***************************************************************************)
(* A model of go-diameter's AVP data types (package base, types.go) and of *)
(* the Device-Watchdog-Request handler (package sm, handleDWR).            *)
(*                                                                         *)
(* Codec part: `obj' is one AVP value (a Go struct behind the Codec        *)
(* interface); the actions are the Codec methods Put, Bytes, Length and    *)
(* String and direct assignments to the exported fields.  `last' records   *)
(* the latest call: the value before it, its argument, what it returned.   *)
(*                                                                         *)
(* Handler part: `attempts' are the writes made on each connection,        *)
(* `reports' the error reports handed to StateMachine.Error, `h' the       *)
(* handler invocation of each connection and `inv' what it has done.       *)
(*                                                                         *)
(* Number representation.  TLC's integers are 32-bit signed, so a uint32,  *)
(* int64, uint64 or the bit pattern of a float is a sequence of 16-bit     *)
(* limbs, most significant first (2 limbs for 32 bits, 4 for 64 bits); a   *)
(* signed 64-bit value is its two's complement pattern and a float its     *)
(* IEEE-754 pattern.  An int32 (Integer32, Enumerated) is a TLC integer.   *)
(***************************************************************************)
EXTENDS Integers, Sequences, FiniteSets, TLC

VARIABLES obj, last, connOpen, attempts, reports, now, calls, h, inv

vars == <<obj, last, connOpen, attempts, reports, now, calls, h, inv>>
smVars == <<connOpen, attempts, reports, now, calls, h, inv>>

-----------------------------------------------------------------------------
(* Bounds of the model.                                                    *)

\* longest byte string given to an octet-string value or a DiameterURI
MaxLen == 8
\* how many octets too many a fixed-width Put may be given
MaxExtra == 1
\* messages received, over all connections, in one behaviour
MaxCalls == 2
\* largest value of the clock (seconds)
MaxClock == 1

-----------------------------------------------------------------------------
(* Octets, slices and fixed-width unsigned numbers.                        *)

Zeros(n) == [i \in 1..n |-> 0]

Prefixes(s) == {SubSeq(s, 1, k) : k \in 0..Len(s)}

\* a small non-negative int as a uint32
U32(n) == <<n \div 65536, n % 65536>>

\* uint32(a) - uint32(b) for 0 <= a, b < 2^31, wrapping around modulo 2^32
Sub32(a, b) ==
    IF a >= b THEN U32(a - b)
    ELSE LET d == b - a IN
         <<65535 - ((d - 1) \div 65536), 65535 - ((d - 1) % 65536)>>

\* binary.BigEndian.PutUint16/32/64: the octets of a limb sequence
BigEndian_Put(limbs) ==
    [i \in 1..(2 * Len(limbs)) |->
        IF i % 2 = 1 THEN limbs[(i + 1) \div 2] \div 256
                     ELSE limbs[i \div 2] % 256]

\* binary.BigEndian.Uint16/32/64: the limb sequence of an even number of octets
BigEndian_Get(b) ==
    [i \in 1..(Len(b) \div 2) |-> b[2 * i - 1] * 256 + b[2 * i]]

\* uint32(x) of an int32 x: its two's complement pattern
Uint32OfInt32(x) ==
    IF x >= 0 THEN <<x \div 65536, x % 65536>>
    ELSE LET c == -(x + 1) IN <<65535 - (c \div 65536), 65535 - (c % 65536)>>

\* int32(u) of a uint32 u
Int32OfUint32(u) ==
    IF u[1] < 32768 THEN u[1] * 65536 + u[2]
    ELSE -((65535 - u[1]) * 65536 + (65535 - u[2])) - 1

-----------------------------------------------------------------------------
(* OctetString and the types that embed it.                                *)

OctetKinds == {"OctetString", "UTF8String", "DiameterIdentity", "IPFilterRule"}

\* pad4 rounds a length up to the next multiple of 4
pad4(n) == ((n + 3) \div 4) * 4

OctetString_Put(os, b) ==
    LET l == Len(b) IN
    [os EXCEPT !.Padding = pad4(l) - l, !.Value = b]

\* updatePadding with the guard dropped and "+=" written for "="
OctetString_updatePadding_Accumulate(os) ==
    LET l == Len(os.Value) IN [os EXCEPT !.Padding = @ + (pad4(l) - l)]

OctetString_updatePadding(os) ==
    IF os.Padding = 0
    THEN LET l == Len(os.Value) IN [os EXCEPT !.Padding = pad4(l) - l]
    ELSE os

\* Bytes with a buffer of l octets instead of l + Padding
OctetString_Bytes_Unpadded(os) ==
    LET s == OctetString_updatePadding(os) IN [self |-> s, ret |-> s.Value]

OctetString_Bytes(os) ==
    LET s == OctetString_updatePadding(os)
        l == Len(s.Value)
    IN  [self |-> s,
         ret  |-> [i \in 1..(l + s.Padding) |-> IF i <= l THEN s.Value[i] ELSE 0]]

OctetString_Length(os) ==
    [self |-> os, ret |-> Sub32(Len(os.Value), os.Padding)]

OctetString_String(os) ==
    [self |-> OctetString_updatePadding(os), ret |-> <<>>]

-----------------------------------------------------------------------------
(* Time.  Value is the time's Unix seconds, an int64 (4 limbs); Bytes      *)
(* reads nothing else of the time.Time.                                    *)

\* time.Time{}.Unix() = -62135596800 = 0xFFFFFFF1886E0900
ZeroTimeUnix == <<65535, 65521, 34926, 2304>>

\* time.Unix(int64(u), 0).Unix() for a uint32 u: zero extension
Int64OfUint32(u) == <<0, 0>> \o u

\* uint32(x) of an int64 x: the low 32 bits
Uint32OfInt64(x) == SubSeq(x, 3, 4)

Time_Put(t, b) ==
    IF Len(b) = 4
    THEN [t EXCEPT !.Value = Int64OfUint32(BigEndian_Get(b))]
    ELSE t

Time_Bytes(t) ==
    [self |-> t, ret |-> BigEndian_Put(Uint32OfInt64(t.Value))]

Time_Length(t) == [self |-> t, ret |-> U32(4)]

-----------------------------------------------------------------------------
(* Address and IPv4.  A net.IP is its octets; the nil IP and the nil       *)
(* Family are the empty sequence.                                          *)

v4InV6Prefix == <<0, 0, 0, 0, 0, 0, 0, 0, 0, 0, 255, 255>>

\* net.IPv4(a, b, c, d): the 16-octet IPv4-mapped form
net_IPv4(a, b, c, d) == v4InV6Prefix \o <<a, b, c, d>>

\* net.IP.To4: the 4-octet form of an IPv4 address, nil for anything else
net_IP_To4(ip) ==
    IF Len(ip) = 4 THEN ip
    ELSE IF Len(ip) = 16 /\ SubSeq(ip, 1, 12) = v4InV6Prefix
         THEN SubSeq(ip, 13, 16)
         ELSE <<>>

Address_Put(addr, b) ==
    IF Len(b) >= 6 /\ b[2] = 1
    THEN [addr EXCEPT !.Family = <<b[1], b[2]>>,
                      !.IP = net_IPv4(b[3], b[4], b[5], b[6]),
                      !.Padding = 2]
    ELSE addr

\* Bytes taking the last four octets of any 16-octet IP, IPv6 included
Address_Bytes_Truncating(addr) ==
    LET ip == IF Len(addr.IP) = 16 THEN SubSeq(addr.IP, 13, 16)
              ELSE net_IP_To4(addr.IP) IN
    IF ip # <<>>
    THEN LET fam == IF addr.Family = <<>> THEN <<0, 1>> ELSE addr.Family IN
         [self |-> [addr EXCEPT !.Family = fam, !.Padding = 2],
          ret  |-> <<fam[1], fam[2], ip[1], ip[2], ip[3], ip[4], 0, 0>>]
    ELSE [self |-> addr, ret |-> <<>>]

Address_Bytes(addr) ==
    LET ip == net_IP_To4(addr.IP) IN
    IF ip # <<>>
    THEN LET fam == IF addr.Family = <<>> THEN <<0, 1>> ELSE addr.Family IN
         [self |-> [addr EXCEPT !.Family = fam, !.Padding = 2],
          ret  |-> <<fam[1], fam[2], ip[1], ip[2], ip[3], ip[4], 0, 0>>]
    ELSE [self |-> addr, ret |-> <<>>]

Address_Length(addr) ==
    [self |-> addr,
     ret  |-> IF net_IP_To4(addr.IP) # <<>> THEN U32(6) ELSE U32(0)]

Address_String(addr) == [self |-> Address_Bytes(addr).self, ret |-> <<>>]

IPv4_Put(addr, b) ==
    IF Len(b) = 4
    THEN [addr EXCEPT !.IP = net_IPv4(b[1], b[2], b[3], b[4])]
    ELSE addr

IPv4_Bytes(addr) == [self |-> addr, ret |-> net_IP_To4(addr.IP)]

IPv4_Length(addr) ==
    [self |-> addr,
     ret  |-> IF net_IP_To4(addr.IP) # <<>> THEN U32(4) ELSE U32(0)]

-----------------------------------------------------------------------------
(* DiameterURI.                                                            *)

DiameterURI_Put(du, b) == [du EXCEPT !.Value = b]

DiameterURI_Bytes(du) == [self |-> du, ret |-> du.Value]

DiameterURI_Length(du) == [self |-> du, ret |-> U32(Len(du.Value))]

-----------------------------------------------------------------------------
(* The numeric types.  A Go slice of octets is nil or not, and has its      *)
(* octets; the nil slice has none.  Put is given a slice and the numeric   *)
(* types keep it, nil or not, as Buffer.                                   *)

\* []byte(nil)
NilSlice == [isNil |-> TRUE, b |-> <<>>]

\* a slice that is not nil, holding the octets b
Slice(b) == [isNil |-> FALSE, b |-> b]

\* binary.Read(bytes.NewBuffer(b), binary.BigEndian, &v) for a v of w octets:
\* an error that leaves v alone when b is shorter than w, otherwise the
\* first w octets of b.
binary_Read(b, w) ==
    IF Len(b) >= w
    THEN [err |-> FALSE, bits |-> BigEndian_Get(SubSeq(b, 1, w))]
    ELSE [err |-> TRUE, bits |-> <<>>]

\* binary.Write(buf, binary.BigEndian, v); buf.Bytes()
binary_Write(bits) == BigEndian_Put(bits)

\* math.Float32bits / math.Float64bits and their inverses: a float is kept
\* as its IEEE-754 pattern, so these change the type and not the bits.
math_Floatbits(f) == f

math_Floatfrombits(u) == u

Integer32_Put(n, d) ==
    LET r == binary_Read(d.b, 4) IN
    [n EXCEPT !.Buffer = d,
              !.Value = IF r.err THEN @ ELSE Int32OfUint32(r.bits)]

\* Bytes writing with binary.LittleEndian
Integer32_Bytes_LittleEndian(n) ==
    LET be == binary_Write(Uint32OfInt32(n.Value))
        b  == [i \in 1..4 |-> be[5 - i]]
    IN  [self |-> [n EXCEPT !.Buffer = Slice(b)], ret |-> b]

Integer32_Bytes(n) ==
    LET b == binary_Write(Uint32OfInt32(n.Value)) IN
    [self |-> [n EXCEPT !.Buffer = Slice(b)], ret |-> b]

Integer32_Length(n) ==
    LET m == IF n.Buffer.isNil THEN Integer32_Bytes(n).self ELSE n IN
    [self |-> m, ret |-> U32(Len(m.Buffer.b))]

Integer64_Put(n, d) ==
    LET r == binary_Read(d.b, 8) IN
    [n EXCEPT !.Buffer = d,
              !.Value = IF r.err THEN @ ELSE r.bits]

Integer64_Bytes(n) ==
    LET b == binary_Write(n.Value) IN
    [self |-> [n EXCEPT !.Buffer = Slice(b)], ret |-> b]

Integer64_Length(n) ==
    LET m == IF n.Buffer.isNil THEN Integer64_Bytes(n).self ELSE n IN
    [self |-> m, ret |-> U32(Len(m.Buffer.b))]

Unsigned32_Put(n, d) ==
    LET r == binary_Read(d.b, 4) IN
    [n EXCEPT !.Buffer = d,
              !.Value = IF r.err THEN @ ELSE r.bits]

Unsigned32_Bytes(n) ==
    LET b == binary_Write(n.Value) IN
    [self |-> [n EXCEPT !.Buffer = Slice(b)], ret |-> b]

Unsigned32_Length(n) ==
    LET m == IF n.Buffer.isNil THEN Unsigned32_Bytes(n).self ELSE n IN
    [self |-> m, ret |-> U32(Len(m.Buffer.b))]

Unsigned64_Put(n, d) ==
    LET r == binary_Read(d.b, 8) IN
    [n EXCEPT !.Buffer = d,
              !.Value = IF r.err THEN @ ELSE r.bits]

Unsigned64_Bytes(n) ==
    LET b == binary_Write(n.Value) IN
    [self |-> [n EXCEPT !.Buffer = Slice(b)], ret |-> b]

Unsigned64_Length(n) ==
    LET m == IF n.Buffer.isNil THEN Unsigned64_Bytes(n).self ELSE n IN
    [self |-> m, ret |-> U32(Len(m.Buffer.b))]

Float32_Put(n, d) ==
    LET r == binary_Read(d.b, 4) IN
    [n EXCEPT !.Buffer = d,
              !.Value = IF r.err THEN @ ELSE math_Floatfrombits(r.bits)]

Float32_Bytes(n) ==
    LET b == binary_Write(math_Floatbits(n.Value)) IN
    [self |-> [n EXCEPT !.Buffer = Slice(b)], ret |-> b]

Float32_Length(n) ==
    LET m == IF n.Buffer.isNil THEN Float32_Bytes(n).self ELSE n IN
    [self |-> m, ret |-> U32(Len(m.Buffer.b))]

Float64_Put(n, d) ==
    LET r == binary_Read(d.b, 8) IN
    [n EXCEPT !.Buffer = d,
              !.Value = IF r.err THEN @ ELSE math_Floatfrombits(r.bits)]

Float64_Bytes(n) ==
    LET b == binary_Write(math_Floatbits(n.Value)) IN
    [self |-> [n EXCEPT !.Buffer = Slice(b)], ret |-> b]

Float64_Length(n) ==
    LET m == IF n.Buffer.isNil THEN Float64_Bytes(n).self ELSE n IN
    [self |-> m, ret |-> U32(Len(m.Buffer.b))]

-----------------------------------------------------------------------------
(* The Codec interface: a call goes to the method of the value's type.     *)
(* Put is given a slice d; the types that only read len(d) and its octets  *)
(* get d.b, the numeric types, which store the slice, get d.               *)
(* UTF8String, DiameterIdentity and IPFilterRule embed OctetString and     *)
(* Enumerated embeds Integer32, so they run the embedded type's methods.   *)

Int32Kinds == {"Integer32", "Enumerated"}

NumKinds32 == {"Integer32", "Enumerated", "Unsigned32", "Float32"}

NumKinds64 == {"Integer64", "Unsigned64", "Float64"}

NumKinds == NumKinds32 \cup NumKinds64

Kinds == OctetKinds \cup {"Time", "Address", "IPv4", "DiameterURI"} \cup NumKinds

\* the encoded width of a numeric type, in octets
Width(k) == IF k \in NumKinds32 THEN 4 ELSE 8

Codec_Put(o, d) ==
    CASE o.kind \in OctetKinds   -> OctetString_Put(o, d.b)
      [] o.kind = "Time"         -> Time_Put(o, d.b)
      [] o.kind = "Address"      -> Address_Put(o, d.b)
      [] o.kind = "IPv4"         -> IPv4_Put(o, d.b)
      [] o.kind = "DiameterURI"  -> DiameterURI_Put(o, d.b)
      [] o.kind \in Int32Kinds   -> Integer32_Put(o, d)
      [] o.kind = "Integer64"    -> Integer64_Put(o, d)
      [] o.kind = "Unsigned32"   -> Unsigned32_Put(o, d)
      [] o.kind = "Unsigned64"   -> Unsigned64_Put(o, d)
      [] o.kind = "Float32"      -> Float32_Put(o, d)
      [] o.kind = "Float64"      -> Float64_Put(o, d)

Codec_Bytes(o) ==
    CASE o.kind \in OctetKinds   -> OctetString_Bytes(o)
      [] o.kind = "Time"         -> Time_Bytes(o)
      [] o.kind = "Address"      -> Address_Bytes(o)
      [] o.kind = "IPv4"         -> IPv4_Bytes(o)
      [] o.kind = "DiameterURI"  -> DiameterURI_Bytes(o)
      [] o.kind \in Int32Kinds   -> Integer32_Bytes(o)
      [] o.kind = "Integer64"    -> Integer64_Bytes(o)
      [] o.kind = "Unsigned32"   -> Unsigned32_Bytes(o)
      [] o.kind = "Unsigned64"   -> Unsigned64_Bytes(o)
      [] o.kind = "Float32"      -> Float32_Bytes(o)
      [] o.kind = "Float64"      -> Float64_Bytes(o)

Codec_Length(o) ==
    CASE o.kind \in OctetKinds   -> OctetString_Length(o)
      [] o.kind = "Time"         -> Time_Length(o)
      [] o.kind = "Address"      -> Address_Length(o)
      [] o.kind = "IPv4"         -> IPv4_Length(o)
      [] o.kind = "DiameterURI"  -> DiameterURI_Length(o)
      [] o.kind \in Int32Kinds   -> Integer32_Length(o)
      [] o.kind = "Integer64"    -> Integer64_Length(o)
      [] o.kind = "Unsigned32"   -> Unsigned32_Length(o)
      [] o.kind = "Unsigned64"   -> Unsigned64_Length(o)
      [] o.kind = "Float32"      -> Float32_Length(o)
      [] o.kind = "Float64"      -> Float64_Length(o)

\* String changes the value only where it calls updatePadding or Bytes; the
\* text it returns is not modelled.
Codec_String(o) ==
    CASE o.kind \in OctetKinds   -> OctetString_String(o)
      [] o.kind = "Address"      -> Address_String(o)
      [] OTHER                   -> [self |-> o, ret |-> <<>>]

\* the zero value of each type
Fresh(k) ==
    CASE k \in OctetKinds    -> [kind |-> k, Value |-> <<>>, Padding |-> 0]
      [] k = "Time"          -> [kind |-> k, Value |-> ZeroTimeUnix]
      [] k = "Address"       -> [kind |-> k, Family |-> <<>>, IP |-> <<>>, Padding |-> 0]
      [] k = "IPv4"          -> [kind |-> k, IP |-> <<>>]
      [] k = "DiameterURI"   -> [kind |-> k, Value |-> <<>>]
      [] k \in Int32Kinds    -> [kind |-> k, Value |-> 0, Buffer |-> NilSlice]
      [] k \in NumKinds32    -> [kind |-> k, Value |-> <<0, 0>>, Buffer |-> NilSlice]
      [] k \in NumKinds64    -> [kind |-> k, Value |-> <<0, 0, 0, 0>>, Buffer |-> NilSlice]

\* an assignment to the exported field that holds the semantic value
FieldAssign(o, v) ==
    IF o.kind \in {"Address", "IPv4"} THEN [o EXCEPT !.IP = v]
                                      ELSE [o EXCEPT !.Value = v]

-----------------------------------------------------------------------------
(* The inputs of the codec operations.                                     *)

\* byte strings of every length up to MaxLen: "aaa...", "a\0a\0..." and all
\* zero octets, each cut at every length
ByteStrings ==
    UNION {Prefixes(s) : s \in {[i \in 1..MaxLen |-> 97],
                                [i \in 1..MaxLen |-> IF i % 2 = 1 THEN 97 ELSE 0],
                                [i \in 1..MaxLen |-> 0]}}

\* 32-bit patterns: 0, 1, 0xFFFFFFFF (-1), 0x80000000 (minimum),
\* 0x7FFFFFFF (maximum), 0x01020304
Bits32 == {<<0, 0>>, <<0, 1>>, <<65535, 65535>>, <<32768, 0>>,
           <<32767, 65535>>, <<258, 772>>}

\* 64-bit patterns: 0, 1, -1, minimum, maximum, 0x0102030405060708
Bits64 == {<<0, 0, 0, 0>>, <<0, 0, 0, 1>>, <<65535, 65535, 65535, 65535>>,
           <<32768, 0, 0, 0>>, <<32767, 65535, 65535, 65535>>,
           <<258, 772, 1286, 1800>>}

Int32Vals == {Int32OfUint32(u) : u \in Bits32}

\* Unix seconds: the zero time, 0, 1, 0x886E0900, 2^32 + 5, -1
TimeVals == {ZeroTimeUnix, <<0, 0, 0, 0>>, <<0, 0, 0, 1>>, <<0, 0, 34926, 2304>>,
             <<0, 1, 0, 5>>, <<65535, 65535, 65535, 65535>>}

IP4Vals == {<<192, 0, 2, 1>>, <<0, 0, 0, 0>>, <<255, 255, 255, 255>>}

\* 2001:db8::1
IPv6Doc == <<32, 1, 13, 184, 0, 0, 0, 0, 0, 0, 0, 0, 0, 0, 0, 1>>

\* the values an IP field is given: nil, 4-octet and 16-octet IPv4, an IPv6
\* address, and a slice that is no address
IPVals == {<<>>} \cup IP4Vals
          \cup {net_IPv4(ip[1], ip[2], ip[3], ip[4]) : ip \in IP4Vals}
          \cup {IPv6Doc, <<1, 2, 3, 4, 5>>}

\* the encodings in E, cut short or followed by up to MaxExtra more octets
WithWrongLengths(E, w) ==
    {SubSeq(e \o [i \in 1..MaxExtra |-> 7], 1, k) : e \in E, k \in 0..(w + MaxExtra)}

\* address-family tag, then the address
AddressWire == {<<f0, f1>> \o ip : f0 \in {0, 1}, f1 \in {0, 1, 2}, ip \in IP4Vals}
               \cup {<<0, 2>> \o IPv6Doc}

\* the octets given to Put, by type
PutOctets(o) ==
    CASE o.kind \in OctetKinds \cup {"DiameterURI"} -> ByteStrings
      [] o.kind = "Time"       -> WithWrongLengths({BigEndian_Put(u) : u \in Bits32}, 4)
      [] o.kind = "Address"    -> WithWrongLengths(AddressWire, 6) \cup AddressWire
      [] o.kind = "IPv4"       -> WithWrongLengths(IP4Vals, 4)
      [] o.kind \in NumKinds32 -> WithWrongLengths({BigEndian_Put(u) : u \in Bits32}, 4)
      [] o.kind \in NumKinds64 -> WithWrongLengths({BigEndian_Put(u) : u \in Bits64}, 8)

\* the slices given to Put: the nil slice, and a non-nil slice of each input
PutInputs(o) == {NilSlice} \cup {Slice(b) : b \in PutOctets(o)}

AssignVals(o) ==
    CASE o.kind \in OctetKinds \cup {"DiameterURI"} -> ByteStrings
      [] o.kind = "Time"                -> TimeVals
      [] o.kind \in {"Address", "IPv4"} -> IPVals
      [] o.kind \in Int32Kinds          -> Int32Vals
      [] o.kind \in NumKinds32          -> Bits32
      [] o.kind \in NumKinds64          -> Bits64

-----------------------------------------------------------------------------
(* The Device-Watchdog-Request handler.                                    *)

Conns == {"c1", "c2"}

\* sm.cfg: the local identity the state machine was configured with
cfg == [OriginHost |-> "server.local", OriginRealm |-> "local.realm"]

\* a Device-Watchdog-Request with all three mandatory AVPs
ValidDWR == [HopByHopID |-> 1, OriginHost |-> "peerA", OriginRealm |-> "realm.test",
             OriginStateID |-> 7, Malformed |-> FALSE]

\* Inbound messages: valid requests, requests with one mandatory AVP absent
\* ("" and 0 are the zero values an absent AVP leaves), and a request with
\* an AVP that cannot be unmarshalled.
Messages ==
    {ValidDWR,
     [ValidDWR EXCEPT !.HopByHopID = 2],
     [ValidDWR EXCEPT !.OriginHost = ""],
     [ValidDWR EXCEPT !.OriginRealm = ""],
     [ValidDWR EXCEPT !.OriginStateID = 0],
     [ValidDWR EXCEPT !.Malformed = TRUE]}

\* what Conn.Write can return as its error; "nil" is success
WriteErrors == {"nil", "i/o timeout", "broken pipe"}

\* smparser.DWR.Parse: the error of the first mandatory field that is
\* malformed or absent, "nil" when all three are there
DWR_Parse(m) ==
    IF m.Malformed THEN "malformed AVP"
    ELSE IF m.OriginHost = "" THEN "missing Origin-Host"
    ELSE IF m.OriginRealm = "" THEN "missing Origin-Realm"
    ELSE IF m.OriginStateID = 0 THEN "missing Origin-State-Id"
    ELSE "nil"

\* m.Answer(resultCode): an answer that mirrors the request's identifiers
Message_Answer(m, resultCode) ==
    [HopByHopID |-> m.HopByHopID, ResultCode |-> resultCode, AVPs |-> <<>>]

\* a.NewAVP(code, flags, vendor, data)
Message_NewAVP(a, code, data) ==
    [a EXCEPT !.AVPs = Append(@, [code |-> code, data |-> data])]

\* sm.Error(report): hands the report to the owner of the state machine
StateMachine_Error(rs, report) == Append(rs, report)

\* what a handler holds before it has a message, and before it has an answer
NoMessage == [HopByHopID |-> 0, OriginHost |-> "", OriginRealm |-> "",
              OriginStateID |-> 0, Malformed |-> FALSE]

NoAnswer == [HopByHopID |-> 0, ResultCode |-> "", AVPs |-> <<>>]

(* The function handleDWR returns runs on a connection c and a message m.  *)
(* It is not one step: it waits inside a.WriteTo(c), and the handlers of   *)
(* other connections, the clock and a close of c run meanwhile.  h[c] is   *)
(* the invocation on c: where it is (pc) and its locals m, err and a.      *)
(*   "read"   the message was read from c, the handler has not run yet     *)
(*   "write"  the answer is built, a.WriteTo(c) has not returned           *)
(*   "report" WriteTo returned an error, sm.Error has not been called      *)
(*   "idle"   the handler returned (or never ran)                          *)

\* handleDWR up to WriteTo, without the return after the parse error is
\* reported
handleDWR_parse_NoReturn(c) ==
    LET m   == h[c].m
        err == DWR_Parse(m)
        a0  == Message_Answer(m, "Success")
        a1  == Message_NewAVP(a0, "Origin-Host", cfg.OriginHost)
        a2  == Message_NewAVP(a1, "Origin-Realm", cfg.OriginRealm)
        a   == Message_NewAVP(a2, "Origin-State-Id", now)
    IN  /\ reports' = IF err # "nil"
                      THEN StateMachine_Error(reports,
                               [Conn |-> c, Message |-> m, Error |-> err])
                      ELSE reports
        /\ h' = [h EXCEPT ![c] = [pc |-> "write", m |-> m, err |-> err, a |-> a]]
        /\ UNCHANGED <<attempts, connOpen>>

\* Lines 542-556: parse the message; on an error report it and return,
\* otherwise build the answer, with the time read now as Origin-State-Id
\* (the clock stays far below 2^32, so datatype.Unsigned32(time.Now().Unix())
\* is `now').
handleDWR_parse(c) ==
    LET m   == h[c].m
        err == DWR_Parse(m)
    IN
    IF err # "nil"
    THEN /\ reports' = StateMachine_Error(reports,
                          [Conn |-> c, Message |-> m, Error |-> err])
         /\ h' = [h EXCEPT ![c] = [pc |-> "idle", m |-> m, err |-> err, a |-> NoAnswer]]
         /\ UNCHANGED <<attempts, connOpen>>
    ELSE LET a0 == Message_Answer(m, "Success")
             a1 == Message_NewAVP(a0, "Origin-Host", cfg.OriginHost)
             a2 == Message_NewAVP(a1, "Origin-Realm", cfg.OriginRealm)
             stateid == now
             a  == Message_NewAVP(a2, "Origin-State-Id", stateid)
         IN  /\ h' = [h EXCEPT ![c] = [pc |-> "write", m |-> m, err |-> err, a |-> a]]
             /\ UNCHANGED <<attempts, reports, connOpen>>

\* WriteTo with its error discarded
handleDWR_write_ErrorDropped(c, werr) ==
    /\ attempts' = [attempts EXCEPT ![c] = Append(@, [msg |-> h[c].a, err |-> werr])]
    /\ h' = [h EXCEPT ![c].pc = "idle", ![c].err = werr]
    /\ UNCHANGED <<reports, connOpen>>

\* Line 557: _, err = a.WriteTo(c) returns werr; line 558 tests it.
handleDWR_write(c, werr) ==
    /\ attempts' = [attempts EXCEPT ![c] = Append(@, [msg |-> h[c].a, err |-> werr])]
    /\ h' = [h EXCEPT ![c].pc = IF werr # "nil" THEN "report" ELSE "idle",
                      ![c].err = werr]
    /\ UNCHANGED <<reports, connOpen>>

\* Lines 559-563: the error of WriteTo is reported.
handleDWR_report(c) ==
    /\ reports' = StateMachine_Error(reports,
                      [Conn |-> c, Message |-> h[c].m, Error |-> h[c].err])
    /\ h' = [h EXCEPT ![c].pc = "idle"]
    /\ UNCHANGED <<attempts, connOpen>>

(* inv[c] observes the latest invocation on c: n counts the invocations    *)
(* on c, writes and reports count the writes attempted on c and the        *)
(* reports made since this invocation was started by steps of the handler  *)
(* on c, and at is the clock when its parse step ran.                      *)
Observe(c) ==
    [inv EXCEPT ![c].writes = @ + Len(attempts'[c]) - Len(attempts[c]),
                ![c].reports = @ + Len(reports') - Len(reports)]

InitSM ==
    /\ connOpen = [c \in Conns |-> TRUE]
    /\ attempts = [c \in Conns |-> <<>>]
    /\ reports = <<>>
    /\ now = 0
    /\ calls = 0
    /\ h = [c \in Conns |-> [pc |-> "idle", m |-> NoMessage, err |-> "none", a |-> NoAnswer]]
    /\ inv = [c \in Conns |-> [n |-> 0, writes |-> 0, reports |-> 0, at |-> 0]]

\* A Device-Watchdog-Request is read from an open connection whose previous
\* message has been handled; the handler will be run on it.
Receive ==
    /\ calls < MaxCalls
    /\ \E c \in Conns, m \in Messages :
          /\ connOpen[c]
          /\ h[c].pc = "idle"
          /\ h' = [h EXCEPT ![c] = [pc |-> "read", m |-> m, err |-> "none", a |-> NoAnswer]]
          /\ inv' = [inv EXCEPT ![c] = [n |-> @.n + 1, writes |-> 0, reports |-> 0, at |-> 0]]
    /\ calls' = calls + 1
    /\ UNCHANGED <<connOpen, attempts, reports, now, obj, last>>

\* the handler runs up to its return or to WriteTo
Parse ==
    /\ \E c \in Conns :
          /\ h[c].pc = "read"
          /\ handleDWR_parse(c)
          /\ inv' = [Observe(c) EXCEPT ![c].at = now]
    /\ UNCHANGED <<now, calls, obj, last>>

\* WriteTo returns; a write on a closed connection fails
Write ==
    /\ \E c \in Conns, werr \in WriteErrors :
          /\ h[c].pc = "write"
          /\ ~connOpen[c] => werr # "nil"
          /\ handleDWR_write(c, werr)
          /\ inv' = Observe(c)
    /\ UNCHANGED <<now, calls, obj, last>>

\* the handler reports the error of WriteTo and returns
Report ==
    /\ \E c \in Conns :
          /\ h[c].pc = "report"
          /\ handleDWR_report(c)
          /\ inv' = Observe(c)
    /\ UNCHANGED <<now, calls, obj, last>>

\* time passes
Tick ==
    /\ now < MaxClock
    /\ now' = now + 1
    /\ UNCHANGED <<connOpen, attempts, reports, calls, h, inv, obj, last>>

\* the owner of the state machine, or the peer, closes a connection
Close ==
    /\ \E c \in Conns :
          /\ connOpen[c]
          /\ connOpen' = [connOpen EXCEPT ![c] = FALSE]
    /\ UNCHANGED <<attempts, reports, now, calls, h, inv, obj, last>>

InitWatchdog ==
    /\ obj = Fresh("OctetString")
    /\ last = [op |-> "new", pre |-> obj, arg |-> <<>>, ret |-> <<>>]
    /\ InitSM

NextWatchdog == Receive \/ Parse \/ Write \/ Report \/ Tick \/ Close

SpecWatchdog == InitWatchdog /\ [][NextWatchdog]_vars

-----------------------------------------------------------------------------
(* The codec specification: one AVP value and the calls made on it.        *)

Init ==
    /\ \E k \in Kinds : obj = Fresh(k)
    /\ last = [op |-> "new", pre |-> obj, arg |-> <<>>, ret |-> <<>>]
    /\ InitSM

Put ==
    /\ \E d \in PutInputs(obj) :
          /\ obj' = Codec_Put(obj, d)
          /\ last' = [op |-> "Put", pre |-> obj, arg |-> d, ret |-> <<>>]
    /\ UNCHANGED smVars

Bytes ==
    /\ obj' = Codec_Bytes(obj).self
    /\ last' = [op |-> "Bytes", pre |-> obj, arg |-> <<>>, ret |-> Codec_Bytes(obj).ret]
    /\ UNCHANGED smVars

Length ==
    /\ obj' = Codec_Length(obj).self
    /\ last' = [op |-> "Length", pre |-> obj, arg |-> <<>>, ret |-> Codec_Length(obj).ret]
    /\ UNCHANGED smVars

String ==
    /\ obj' = Codec_String(obj).self
    /\ last' = [op |-> "String", pre |-> obj, arg |-> <<>>, ret |-> <<>>]
    /\ UNCHANGED smVars

Assign ==
    /\ \E v \in AssignVals(obj) :
          /\ obj' = FieldAssign(obj, v)
          /\ last' = [op |-> "Assign", pre |-> obj, arg |-> v, ret |-> <<>>]
    /\ UNCHANGED smVars

Next == Put \/ Bytes \/ Length \/ String \/ Assign

Spec == Init /\ [][Next]_vars

-----------------------------------------------------------------------------
(* The claims.                                                             *)

\* the field of a value that holds its semantic value
Semantic(o) == IF o.kind \in {"Address", "IPv4"} THEN o.IP ELSE o.Value

\* the latest invocation on c has returned / is under way, with a message
\* whose parse fails / succeeds
Returned(c) == inv[c].n > 0 /\ h[c].pc = "idle"

\* the handler on c took a step from position pc
StepFrom(c, pc) == h[c].pc = pc /\ h'[c] # h[c]

\* C1: when the mandatory-field parse of the request fails, one run of the
\* handler makes exactly one error report, carrying the connection, the
\* original message and the parse error, and then returns; it attempts no
\* write on any connection and leaves every connection as open or closed
\* as it was.
C1_ParseFailureReportsOnce ==
    /\ [](\A c \in Conns :
            (inv[c].n > 0 /\ h[c].pc # "read" /\ DWR_Parse(h[c].m) # "nil") =>
                /\ h[c].pc = "idle"
                /\ inv[c].writes = 0
                /\ inv[c].reports = 1)
    /\ [][\A c \in Conns :
            (StepFrom(c, "read") /\ DWR_Parse(h[c].m) # "nil") =>
                /\ reports' = Append(reports, [Conn |-> c, Message |-> h[c].m,
                                               Error |-> DWR_Parse(h[c].m)])
                /\ attempts' = attempts
                /\ connOpen' = connOpen]_vars

\* C1 witness: a request without Origin-Realm has been handled on c1 while
\* the handler of c2 waits in WriteTo: one report, of c1's message, no write
\* on c1, c1 still open.
C1_Witness ==
    /\ Returned("c1")
    /\ DWR_Parse(h["c1"].m) = "missing Origin-Realm"
    /\ h["c2"].pc = "write"
    /\ Len(reports) = 1
    /\ reports[1].Conn = "c1"
    /\ reports[1].Message = h["c1"].m
    /\ attempts["c1"] = <<>>
    /\ connOpen["c1"]

\* the answer the handler on c is to write: Success, the request's
\* identifier, the local identity and the time read when it was built
ExpectedAnswer(c) ==
    [HopByHopID |-> h[c].m.HopByHopID, ResultCode |-> "Success",
     AVPs |-> <<[code |-> "Origin-Host", data |-> cfg.OriginHost],
                [code |-> "Origin-Realm", data |-> cfg.OriginRealm],
                [code |-> "Origin-State-Id", data |-> inv[c].at]>>]

\* C2: when the parse succeeds, one run of the handler attempts exactly one
\* write, on the same connection, of one answer with result code Success, the
\* local Origin-Host and Origin-Realm and the time it read as
\* Origin-State-Id, and does not retry; it makes no error report when the
\* write succeeds and exactly one, carrying the write error, when it fails.
C2_ParseSuccessWritesOnce ==
    /\ [](\A c \in Conns :
            (inv[c].n > 0 /\ h[c].pc # "read" /\ DWR_Parse(h[c].m) = "nil") =>
                LET k == Len(attempts[c]) IN
                /\ h[c].pc = "write" => inv[c].writes = 0 /\ inv[c].reports = 0
                /\ h[c].pc # "write" =>
                      /\ inv[c].writes = 1
                      /\ k > 0
                      /\ attempts[c][k].msg = ExpectedAnswer(c)
                      /\ h[c].pc = "report" =>
                            attempts[c][k].err # "nil" /\ inv[c].reports = 0
                      /\ h[c].pc = "idle" =>
                            inv[c].reports = IF attempts[c][k].err = "nil" THEN 0 ELSE 1)
    /\ [][\A c \in Conns :
            /\ StepFrom(c, "write") =>
                  /\ \A d \in Conns \ {c} : attempts'[d] = attempts[d]
                  /\ reports' = reports
            /\ StepFrom(c, "report") =>
                  /\ reports' = Append(reports,
                                   [Conn |-> c, Message |-> h[c].m,
                                    Error |-> attempts[c][Len(attempts[c])].err])
                  /\ attempts' = attempts]_vars

\* C2 witness: two valid requests were handled on c1, the first answered
\* and the write of the second answer failed: two attempts, the second with
\* the later time, and one report, of the write failure.
C2_Witness ==
    /\ Returned("c1")
    /\ inv["c1"].n = 2
    /\ Len(attempts["c1"]) = 2
    /\ attempts["c1"][1].err = "nil"
    /\ attempts["c1"][2].err = "broken pipe"
    /\ attempts["c1"][2].msg.AVPs[3].data = 1
    /\ Len(reports) = 1
    /\ reports[1].Error = "broken pipe"

\* C3 as claimed: putting the output of Bytes into a fresh value of the same
\* type gives back the Value the octet string held.
C3_RoundTrip ==
    obj.kind \in OctetKinds =>
        Codec_Put(Fresh(obj.kind), Slice(Codec_Bytes(obj).ret)).Value = obj.Value

\* C3 as amended: Put does not strip what Bytes appended, so the fresh
\* value's Value is the original Value followed by the zero padding octets of
\* Bytes, and equals the original Value exactly when Bytes appended none.
C3_RoundTripKeepsPadding ==
    obj.kind \in OctetKinds =>
        LET r == Codec_Bytes(obj)
            d == Codec_Put(Fresh(obj.kind), Slice(r.ret))
        IN  /\ d.Value = obj.Value \o Zeros(r.self.Padding)
            /\ (d.Value = obj.Value) <=> (r.self.Padding = 0)

\* C3 witness: Bytes was called on a DiameterIdentity holding "aaa" and
\* returned the four octets "aaa\0".
C3_Witness ==
    /\ obj.kind = "DiameterIdentity"
    /\ last.op = "Bytes"
    /\ obj.Value = <<97, 97, 97>>
    /\ last.ret = <<97, 97, 97, 0>>

\* C4: in every state an octet-string value can reach, Bytes returns
\* len(Value) + p octets with p in 0..3 and a total that is a multiple of 4,
\* p being the padding computed from the current Value.
C4_WireSizeMultipleOf4 ==
    obj.kind \in OctetKinds =>
        LET b == Codec_Bytes(obj).ret
            l == Len(obj.Value)
            p == Len(b) - l
        IN  /\ p \in 0..3
            /\ Len(b) % 4 = 0
            /\ p = pad4(l) - l

\* C5: Bytes of a numeric value is the 4- or 8-octet big-endian two's
\* complement (or IEEE-754) encoding of its Value, and Put of those octets
\* into a fresh value of the type sets Value to the same value.
C5_NumericFidelity ==
    obj.kind \in NumKinds =>
        LET b == Codec_Bytes(obj).ret
            w == Width(obj.kind)
            bits == IF obj.kind \in Int32Kinds THEN Uint32OfInt32(obj.Value)
                                               ELSE obj.Value
        IN  /\ Len(b) = w
            /\ \A i \in 1..w : b[i] \in 0..255
            /\ \A j \in 1..(w \div 2) : b[2 * j - 1] * 256 + b[2 * j] = bits[j]
            /\ obj.kind \in Int32Kinds => ((obj.Value < 0) <=> (b[1] >= 128))
            /\ Codec_Put(Fresh(obj.kind), Slice(b)).Value = obj.Value

\* C5 witness: Bytes was called on an Integer32 holding the minimum and
\* returned 80 00 00 00.
C5_Witness ==
    /\ obj.kind = "Integer32"
    /\ last.op = "Bytes"
    /\ obj.Value = -2147483647 - 1
    /\ last.ret = <<128, 0, 0, 0>>

\* C6: for a value of any type in any reachable state, two calls of Bytes in
\* a row return the same octets and the first leaves the semantic value as
\* it was; after a call of Bytes, another call returns what that one did.
C6_BytesIdempotent ==
    LET r1 == Codec_Bytes(obj)
        r2 == Codec_Bytes(r1.self)
    IN  /\ r1.ret = r2.ret
        /\ Semantic(r1.self) = Semantic(obj)
        /\ last.op = "Bytes" => /\ r1.ret = last.ret
                                /\ Semantic(obj) = Semantic(last.pre)

\* C6 witness: Bytes was called on a UTF8String whose Padding was still 0
\* for a Value of three octets, and set Padding to 1.
C6_Witness ==
    /\ obj.kind = "UTF8String"
    /\ last.op = "Bytes"
    /\ last.pre.Padding = 0
    /\ Len(obj.Value) = 3
    /\ obj.Padding = 1
    /\ Len(last.ret) = 4

\* the IP holds the IPv4 address q, in its 4-octet or its 16-octet form
HoldsIPv4(ip, q) == ip = q \/ ip = v4InV6Prefix \o q

\* C7: an Address with no family set that holds the IPv4 address a.b.c.d
\* encodes as 0 1 a b c d 0 0 and has Length 6; an Address that holds no IPv4
\* address encodes as no octets and has Length 0.
C7_AddressEncode ==
    obj.kind = "Address" =>
        /\ \A q \in IP4Vals :
              (HoldsIPv4(obj.IP, q) /\ obj.Family = <<>>) =>
                  /\ Codec_Bytes(obj).ret = <<0, 1>> \o q \o <<0, 0>>
                  /\ Codec_Length(obj).ret = U32(6)
        /\ (\A q \in IP4Vals : ~HoldsIPv4(obj.IP, q)) =>
              /\ Codec_Bytes(obj).ret = <<>>
              /\ Codec_Length(obj).ret = U32(0)

\* C7 witness: Bytes was called on an Address with no family holding
\* 192.0.2.1 and returned 0 1 192 0 2 1 0 0.
C7_Witness ==
    /\ obj.kind = "Address"
    /\ last.op = "Bytes"
    /\ last.pre.Family = <<>>
    /\ last.pre.IP = <<192, 0, 2, 1>>
    /\ last.ret = <<0, 1, 192, 0, 2, 1, 0, 0>>

\* C8: in every state an octet-string value can reach, Length returns
\* len(Value), so that Length plus Padding is the number of octets Bytes
\* returns, and the uint32 it returns has not wrapped around.
C8_LengthIsUnpaddedLength ==
    obj.kind \in OctetKinds =>
        LET n == Codec_Length(obj).ret
            r == Codec_Bytes(obj)
        IN  /\ n = U32(Len(obj.Value))
            /\ n[1] = 0
            /\ n[2] + r.self.Padding = Len(r.ret)

\* C9: in every state a numeric value can reach, Length returns the encoded
\* width of the type: 4 for the 32-bit types and 8 for the 64-bit types.
C9_NumericLengthFixed ==
    obj.kind \in NumKinds => Codec_Length(obj).ret = U32(Width(obj.kind))

\* the 2-octet big-endian address-family tag of an input
FamilyTag(d) == d[1] * 256 + d[2]

\* C10: a Put on an Address with an input shorter than 6 octets or with an
\* address-family tag other than 1 leaves Family, IP and Padding as they
\* were; any other input sets the three of them together.
C10_AddressPutFrame ==
    (obj.kind = "Address" /\ last.op = "Put") =>
        IF Len(last.arg.b) < 6 \/ FamilyTag(last.arg.b) # 1
        THEN obj = last.pre
        ELSE /\ obj.Family = <<0, 1>>
             /\ obj.IP = net_IPv4(last.arg.b[3], last.arg.b[4], last.arg.b[5], last.arg.b[6])
             /\ obj.Padding = 2

====
